---- MODULE Spec2Model ----
(***************************************************************************)
(* Model of process_asset_data (src/process_assets.py): per-file loading   *)
(* with the minimum-history filter, date alignment, annualized moments,    *)
(* the market anchor, adaptive shrinkage, and the two output writes.       *)
(*                                                                         *)
(* Numbers.  A float is modelled exactly: kind "nan", "inf", "ninf", or    *)
(* "fin" with a reduced fraction n/d.  Quantities that carry a square root *)
(* (standard deviation, volatility, Sharpe ratio) are "surds": kind as     *)
(* before, and for "fin" the value sign(n) * sqrt(|n| / d).  Rounding of   *)
(* IEEE arithmetic is not modelled; division by zero and NaN propagation   *)
(* follow numpy.                                                           *)
(*                                                                         *)
(* Data.  A file name is a sequence of characters.  A DataFrame read from  *)
(* a file is [kind, start, len, mu, amp, up, down]: len rows on the        *)
(* consecutive dates start .. start+len-1, whose Close is exp(LogClose):   *)
(* a drift of mu per day plus one step of +amp at date up and one of -amp  *)
(* at date down.                                                           *)
(***************************************************************************)
EXTENDS Integers, Sequences, FiniteSets, TLC

VARIABLES
    asset_files,        \* the .csv names of os.listdir, in listing order
    idx,                \* position of the for loop in asset_files
    frames,             \* what read_csv returned for each file read so far
    all_returns,        \* dict ticker -> daily_returns: [order, val]
    log,                \* the lines printed so far
    returns_df,         \* the aligned frame: [cols, lo, hi]
    mean_returns,       \* ticker -> annualized mean
    volatility,         \* ticker -> annualized volatility (surd)
    market_return,
    market_sharpe,
    sharpe_ratios,      \* ticker -> Sharpe ratio (surd)
    tau,                \* ticker -> blend weight
    summary_df,         \* sequence of rows [Ticker, Mean, Volatility]
    summary_file,       \* content of summary_output_file, or Absent
    covariance_file,    \* content of covariance_output_file, or Absent
    pc                  \* "load", "write_summary", "write_cov", "done",
                        \* "returned", "raised"

vars == <<asset_files, idx, frames, all_returns, log, returns_df, mean_returns,
          volatility, market_return, market_sharpe, sharpe_ratios, tau,
          summary_df, summary_file, covariance_file, pc>>

-----------------------------------------------------------------------------
(* Bounds and program constants *)

MaxFiles == 3

trading_days == 252

min_history_days == 1260

-----------------------------------------------------------------------------
(* Exact arithmetic *)

Abs(x) == IF x < 0 THEN -x ELSE x

Sign(x) == IF x < 0 THEN -1 ELSE IF x > 0 THEN 1 ELSE 0

RECURSIVE Gcd(_, _)
Gcd(a, b) == IF b = 0 THEN a ELSE Gcd(b, a % b)

NaN == [k |-> "nan", n |-> 0, d |-> 1]

PInf == [k |-> "inf", n |-> 0, d |-> 1]

NInf == [k |-> "ninf", n |-> 0, d |-> 1]

\* the fraction n/d in lowest terms, d > 0
Reduced(n, d, g) == [k |-> "fin", n |-> n \div g, d |-> d \div g]

Fin(n, d) ==
    IF d = 1 THEN [k |-> "fin", n |-> n, d |-> 1]
    ELSE IF d < 0 THEN Reduced(-n, -d, Gcd(Abs(n), -d))
    ELSE Reduced(n, d, Gcd(Abs(n), d))

IsFin(x) == x.k = "fin"

\* sign of a float or surd: -1, 0, 1 (NaN has none and is handled by callers)
SignOf(x) ==
    IF x.k = "inf" THEN 1 ELSE IF x.k = "ninf" THEN -1 ELSE Sign(x.n)

Neg(x) ==
    CASE x.k = "fin" -> [x EXCEPT !.n = -x.n]
      [] x.k = "inf" -> NInf
      [] x.k = "ninf" -> PInf
      [] OTHER -> NaN

Add(a, b) ==
    IF a.k = "nan" \/ b.k = "nan" THEN NaN
    ELSE IF IsFin(a) /\ IsFin(b) THEN
        IF a.d = b.d THEN Fin(a.n + b.n, a.d)
        ELSE Fin(a.n * (b.d \div Gcd(a.d, b.d)) + b.n * (a.d \div Gcd(a.d, b.d)),
                 (a.d \div Gcd(a.d, b.d)) * b.d)
    ELSE IF IsFin(a) THEN b
    ELSE IF IsFin(b) THEN a
    ELSE IF a.k = b.k THEN a ELSE NaN

Sub(a, b) == Add(a, Neg(b))

\* a * b for fractions in lowest terms, g1 = gcd(a.n, b.d), g2 = gcd(b.n, a.d)
MulReduced(a, b, g1, g2) ==
    [k |-> "fin", n |-> (a.n \div g1) * (b.n \div g2), d |-> (a.d \div g2) * (b.d \div g1)]

Mul(a, b) ==
    IF a.k = "nan" \/ b.k = "nan" THEN NaN
    ELSE IF IsFin(a) /\ IsFin(b) THEN
        IF a.d = 1 /\ b.d = 1 THEN [k |-> "fin", n |-> a.n * b.n, d |-> 1]
        ELSE MulReduced(a, b, Gcd(Abs(a.n), b.d), Gcd(Abs(b.n), a.d))
    ELSE IF SignOf(a) * SignOf(b) = 0 THEN NaN
    ELSE IF SignOf(a) * SignOf(b) > 0 THEN PInf ELSE NInf

\* a / b for finite a and an integer count b > 0
DivInt(a, b) == Mul(a, Fin(1, b))

Whole(i) == Fin(i, 1)

\* IEEE comparison a > b: false whenever a NaN is involved
Rank(x) == IF x.k = "inf" THEN 1 ELSE IF x.k = "ninf" THEN -1 ELSE 0

\* an/ad > bn/bd for ad, bd > 0, by continued fractions (no products to overflow)
RECURSIVE FracGt(_, _, _, _)
FracGt(an, ad, bn, bd) ==
    IF an \div ad # bn \div bd THEN an \div ad > bn \div bd
    ELSE IF an % ad = 0 THEN FALSE
    ELSE IF bn % bd = 0 THEN TRUE
    ELSE FracGt(bd, bn % bd, ad, an % ad)

Gt(a, b) ==
    IF a.k = "nan" \/ b.k = "nan" THEN FALSE
    ELSE IF IsFin(a) /\ IsFin(b) THEN FracGt(a.n, a.d, b.n, b.d)
    ELSE Rank(a) > Rank(b)

\* the surd sign(x) * sqrt(|x|) of a float x >= 0 is sqrt(x)
Sqrt(x) == IF x.k = "fin" /\ x.n < 0 THEN NaN ELSE x

\* the surd with the value of the float x
AsSurd(x) ==
    IF IsFin(x) THEN Fin(Sign(x.n) * x.n * x.n, x.d * x.d) ELSE x

\* product of a float x and a surd s
SurdScale(x, s) ==
    IF x.k = "nan" \/ s.k = "nan" THEN NaN
    ELSE IF IsFin(x) /\ IsFin(s) THEN
        LET m == Mul(Mul(x, Fin(Abs(s.n), s.d)), x)
        IN  Fin(Sign(x.n) * Sign(s.n) * m.n, m.d)
    ELSE IF SignOf(x) * SignOf(s) = 0 THEN NaN
    ELSE IF SignOf(x) * SignOf(s) > 0 THEN PInf ELSE NInf

\* product of two surds
SurdMul(s, t) ==
    IF s.k = "nan" \/ t.k = "nan" THEN NaN
    ELSE IF IsFin(s) /\ IsFin(t) THEN
        LET m == Mul(Fin(Abs(s.n), s.d), Fin(Abs(t.n), t.d))
        IN  Fin(Sign(s.n) * Sign(t.n) * m.n, m.d)
    ELSE IF SignOf(s) * SignOf(t) = 0 THEN NaN
    ELSE IF SignOf(s) * SignOf(t) > 0 THEN PInf ELSE NInf

\* float x divided by surd s, as numpy divides: x/0 is inf, -inf or NaN
DivSurd(x, s) ==
    IF x.k = "nan" \/ s.k = "nan" THEN NaN
    ELSE IF IsFin(x) /\ IsFin(s) THEN
        IF s.n = 0 THEN
            (IF x.n > 0 THEN PInf ELSE IF x.n < 0 THEN NInf ELSE NaN)
        ELSE
            LET m == Mul(Mul(x, Fin(s.d, Abs(s.n))), x)
            IN  Fin(Sign(x.n) * Sign(s.n) * m.n, m.d)
    ELSE IF IsFin(x) THEN Whole(0)
    ELSE IF IsFin(s) THEN (IF SignOf(x) * Sign(s.n) >= 0 THEN x ELSE Neg(x))
    ELSE NaN

\* IEEE comparison s > t of two surds: x -> sign(x) * x^2 is increasing
SurdGt(s, t) == Gt(s, t)

-----------------------------------------------------------------------------
(* File names and ticker symbols *)

Lower == <<"a", "b", "c", "d", "e", "f", "g", "h", "i", "j", "k", "l", "m",
           "n", "o", "p", "q", "r", "s", "t", "u", "v", "w", "x", "y", "z">>

Upper == <<"A", "B", "C", "D", "E", "F", "G", "H", "I", "J", "K", "L", "M",
           "N", "O", "P", "Q", "R", "S", "T", "U", "V", "W", "X", "Y", "Z">>

\* the upper-case form of each lower-case letter
UpperMap ==
    [c \in {Lower[i] : i \in 1..Len(Lower)} |->
        Upper[CHOOSE i \in 1..Len(Lower) : Lower[i] = c]]

\* str.upper on one character
UpperChar(c) == IF c \in DOMAIN UpperMap THEN UpperMap[c] ELSE c

\* str.upper
ToUpper(s) == [i \in 1..Len(s) |-> UpperChar(s[i])]

\* s.split('_')[0]: the part before the first '_', all of s when it has none
SplitFirst(s) ==
    IF \E i \in 1..Len(s) : s[i] = "_"
    THEN SubSeq(s, 1, (CHOOSE i \in 1..Len(s) :
                          s[i] = "_" /\ \A j \in 1..(i - 1) : s[j] # "_") - 1)
    ELSE s

\* f.endswith('.csv')
EndsWithCsv(s) ==
    Len(s) >= 4 /\ SubSeq(s, Len(s) - 3, Len(s)) = <<".", "c", "s", "v">>

\* ticker = asset_file.split('_')[0].upper()
TickerOf(asset_file) == ToUpper(SplitFirst(asset_file))

\* the literal 'SPY'
SPY == <<"S", "P", "Y">>

\* the directory entries a run may list
FileNames ==
    { <<"s", "p", "y", "_", "d", ".", "c", "s", "v">>,
      <<"S", "p", "y", "_", "2", ".", "c", "s", "v">>,
      <<"q", "q", ".", "c", "s", "v">>,
      <<"a", "b", "_", "x", ".", "c", "s", "v">>,
      <<"n", ".", "t", "x", "t">> }

\* os.listdir: the entries in arbitrary order, each name once
Listings ==
    { l \in UNION { [1..n -> FileNames] : n \in 0..MaxFiles } :
        \A i, j \in DOMAIN l : i # j => l[i] # l[j] }

-----------------------------------------------------------------------------
(* DataFrames *)

Frame(kind, start, len, mu, amp, up, down) ==
    [kind |-> kind, start |-> start, len |-> len, mu |-> mu, amp |-> amp,
     up |-> up, down |-> down]

\* what pd.read_csv may return, or raise, for a file
Frames ==
    { Frame("raises", 0, 0, 0, 0, 0, 0),            \* unreadable, or no Date column
      Frame("noclose", 0, 1260, 0, 0, 0, 0),        \* no 'Close' column
      Frame("ok", 1259, 1259, 5, 1, 2000, 2001),    \* one row short of the threshold
      Frame("ok", 0, 1260, 3, 2, 1258, 1259),       \* returns on dates 1..1259
      Frame("ok", 1257, 1260, 1, 1, 1258, 1259),    \* shares 2 return dates with start 0
      Frame("ok", 1258, 1260, -1, 1, 2000, 2001),   \* shares 1, and falls on average
      Frame("ok", 1259, 1260, 0, 0, 0, 0) }         \* shares none; constant price

\* ln(Close) on date d, in the frame's unit
LogClose(df, d) ==
    df.mu * (d - df.start) + (IF d >= df.up THEN df.amp ELSE 0)
                           - (IF d >= df.down THEN df.amp ELSE 0)

\* np.log(df['Close'] / df['Close'].shift(1)).dropna(): the first row has no
\* predecessor, is NaN and is dropped
DailyReturns(df) == [lo |-> df.start + 1, hi |-> df.start + df.len - 1, df |-> df]

\* the value of a return series on date d
RetAt(s, d) == Whole(LogClose(s.df, d) - LogClose(s.df, d - 1))

\* the dates on which a series departs from its run of equal values
Breaks(s) == {s.df.up, s.df.down}

-----------------------------------------------------------------------------
(* The dict all_returns: keys in insertion order, one value per key *)

EmptyDict == [order |-> <<>>, val |-> <<>>]

Keys(dict) == {dict.order[i] : i \in 1..Len(dict.order)}

\* a dict whose assignment moves a known key to the end
DictSetMoveLast(dict, key, v) ==
    [order |-> IF key \notin Keys(dict) THEN Append(dict.order, key)
               ELSE [i \in 1..Len(dict.order) |->
                        IF i < (CHOOSE p \in 1..Len(dict.order) : dict.order[p] = key)
                        THEN dict.order[i]
                        ELSE IF i < Len(dict.order) THEN dict.order[i + 1] ELSE key],
     val   |-> [x \in Keys(dict) \cup {key} |-> IF x = key THEN v ELSE dict.val[x]]]

\* all_returns[ticker] = v: a new key goes last, a known key keeps its place
DictSet(dict, key, v) ==
    [order |-> IF key \in Keys(dict) THEN dict.order ELSE Append(dict.order, key),
     val   |-> [x \in Keys(dict) \cup {key} |-> IF x = key THEN v ELSE dict.val[x]]]

\* 'Close' in df.columns
HasClose(df) == df.kind # "noclose"

\* a filter that also drops a record of exactly min_history_days rows
MeetsHistoryStrict(df) == df.len > min_history_days

\* not (len(df) < min_history_days)
MeetsHistory(df) == ~(df.len < min_history_days)

\* an empty check that never fires
IsEmptyDictNever(dict) == FALSE

\* not all_returns
IsEmptyDict(dict) == dict.order = <<>>

-----------------------------------------------------------------------------
(* Alignment and moments *)

SetMax(S) == CHOOSE x \in S : \A y \in S : y <= x

SetMin(S) == CHOOSE x \in S : \A y \in S : x <= y

NoFrame == [cols |-> <<>>, lo |-> 1, hi |-> 0, col |-> <<>>]

\* pd.DataFrame(all_returns).dropna(): one column per key in dict order, the
\* rows are the dates every column has
Align(dict) ==
    IF dict.order = <<>> THEN NoFrame
    ELSE LET lo == SetMax({dict.val[t].lo : t \in Keys(dict)})
             hi == SetMin({dict.val[t].hi : t \in Keys(dict)})
         IN  IF hi < lo
             THEN [cols |-> dict.order, lo |-> 1, hi |-> 0, col |-> dict.val]
             ELSE [cols |-> dict.order, lo |-> lo, hi |-> hi, col |-> dict.val]

NRows(rdf) == rdf.hi - rdf.lo + 1

Columns(rdf) == {rdf.cols[i] : i \in 1..Len(rdf.cols)}

RECURSIVE SumSet(_, _)
SumSet(S, f) ==
    IF S = {} THEN Whole(0)
    ELSE LET x == CHOOSE y \in S : TRUE
         IN  Add(f[x], SumSet(S \ {x}, f))

\* the rows of rdf on the dates br
SpecialRows(rdf, br) == {d \in br : rdf.lo <= d /\ d <= rdf.hi}

\* a row of rdf outside br, when there is one: it is among the first rows
OrdinaryRow(rdf, br) ==
    CHOOSE d \in rdf.lo..(rdf.lo + Cardinality(SpecialRows(rdf, br))) :
        d \notin SpecialRows(rdf, br)

\* the sum over the rows of rdf of a term that is f[d] on the rows d in br and
\* ord on every other row
SumRows(rdf, br, f, ord) ==
    IF NRows(rdf) = Cardinality(SpecialRows(rdf, br))
    THEN SumSet(SpecialRows(rdf, br), f)
    ELSE Add(SumSet(SpecialRows(rdf, br), f),
             Mul(Whole(NRows(rdf) - Cardinality(SpecialRows(rdf, br))), ord))

\* returns_df[t].mean(): NaN for no rows
ColMean(rdf, t) ==
    IF NRows(rdf) = 0 THEN NaN
    ELSE DivInt(SumRows(rdf, Breaks(rdf.col[t]),
                        [d \in SpecialRows(rdf, Breaks(rdf.col[t])) |->
                            RetAt(rdf.col[t], d)],
                        RetAt(rdf.col[t], OrdinaryRow(rdf, Breaks(rdf.col[t])))),
                NRows(rdf))

\* (a - ma) * (b - mb) on date d, for two columns and their means
DevProd(rdf, a, ma, b, mb, d) ==
    Mul(Sub(RetAt(rdf.col[a], d), ma), Sub(RetAt(rdf.col[b], d), mb))

\* the dates on which one of two columns departs from its run
Breaks2(rdf, a, b) == Breaks(rdf.col[a]) \cup Breaks(rdf.col[b])

\* sum over the rows of (a - ma) * (b - mb)
SumProd(rdf, a, ma, b, mb) ==
    SumRows(rdf, Breaks2(rdf, a, b),
            [d \in SpecialRows(rdf, Breaks2(rdf, a, b)) |-> DevProd(rdf, a, ma, b, mb, d)],
            DevProd(rdf, a, ma, b, mb, OrdinaryRow(rdf, Breaks2(rdf, a, b))))

\* sample variance or covariance (ddof = 1) of two columns with means ma, mb
SampleCov(rdf, a, ma, b, mb) == DivInt(SumProd(rdf, a, ma, b, mb), NRows(rdf) - 1)

\* returns_df[t].std(): sample standard deviation, NaN below 2 rows
StdAbout(rdf, t, m) ==
    IF NRows(rdf) < 2 THEN NaN ELSE Sqrt(SampleCov(rdf, t, m, t, m))

\* (the set form binds the mean to its value, computed once)
ColStd(rdf, t) == CHOOSE s \in {StdAbout(rdf, t, m) : m \in {ColMean(rdf, t)}} : TRUE

\* returns_df.cov(): sample covariance of every pair, NaN below 2 rows
CovAbout(rdf, m) ==
    [p \in Columns(rdf) \X Columns(rdf) |->
        IF NRows(rdf) < 2 THEN NaN
        ELSE SampleCov(rdf, p[1], m[p[1]], p[2], m[p[2]])]

ColCov(rdf) ==
    CHOOSE c \in {CovAbout(rdf, m) : m \in {[t \in Columns(rdf) |-> ColMean(rdf, t)]}} :
        TRUE

\* returns_df.mean() * trading_days
MeanReturns(rdf) == [t \in Columns(rdf) |-> Mul(ColMean(rdf, t), Whole(trading_days))]

\* returns_df.std() * np.sqrt(trading_days)
Volatility(rdf) ==
    [t \in Columns(rdf) |-> SurdMul(ColStd(rdf, t), Sqrt(Whole(trading_days)))]

\* Series.mean() over the tickers: NaN entries are skipped, NaN when none is left
SeriesMean(ser) ==
    LET valid == {t \in DOMAIN ser : ser[t].k # "nan"}
    IN  IF valid = {} THEN NaN
        ELSE DivInt(SumSet(valid, ser), Cardinality(valid))

-----------------------------------------------------------------------------
(* Market anchor and shrinkage *)

\* a proxy test that never finds the proxy
HasProxyNever(rdf) == FALSE

\* 'SPY' in returns_df.columns
HasProxy(rdf) == SPY \in Columns(rdf)

\* returns_df['SPY'].mean() * trading_days, or mean_returns.mean() without SPY
MarketReturn(rdf, means) ==
    IF HasProxy(rdf)
    THEN Mul(ColMean(rdf, SPY), Whole(trading_days))
    ELSE SeriesMean(means)

MarketSharpe(rdf, means) ==
    IF HasProxy(rdf)
    THEN DivSurd(MarketReturn(rdf, means),
                 SurdMul(ColStd(rdf, SPY), Sqrt(Whole(trading_days))))
    ELSE AsSurd(Fin(7, 10))

\* mean_returns / volatility
SharpeRatios(means, vols) == [t \in DOMAIN means |-> DivSurd(means[t], vols[t])]

\* a tau that compares with >=
TauOfInclusive(sharpe, msharpe) ==
    IF \/ SurdGt(sharpe, SurdScale(Fin(3, 2), msharpe))
       \/ (sharpe.k # "nan" /\ sharpe = SurdScale(Fin(3, 2), msharpe))
    THEN Fin(1, 5) ELSE Fin(2, 5)

\* np.where(sharpe_ratios > 1.5 * market_sharpe, 0.20, 0.40), one entry
TauOf(sharpe, msharpe) ==
    IF SurdGt(sharpe, SurdScale(Fin(3, 2), msharpe)) THEN Fin(1, 5) ELSE Fin(2, 5)

\* a blend that leaves the weight off the historical mean
ShrunkenUnweighted(t, mret, mean) == Add(Mul(Sub(Whole(1), t), mret), mean)

\* (1 - tau) * market_return + tau * mean_returns, one entry
Shrunken(t, mret, mean) == Add(Mul(Sub(Whole(1), t), mret), Mul(t, mean))

\* the rows of summary_df, in column order
SummaryRows(rdf, means, vols, taus, mret) ==
    [i \in 1..Len(rdf.cols) |->
        [Ticker     |-> rdf.cols[i],
         Mean       |-> Shrunken(taus[rdf.cols[i]], mret, means[rdf.cols[i]]),
         Volatility |-> vols[rdf.cols[i]]]]

\* cov * trading_days, entry by entry
Annualized(cov) == [p \in DOMAIN cov |-> Mul(cov[p], Whole(trading_days))]

\* returns_df.cov() * trading_days, keyed by the columns on both axes
CovarianceMatrix(rdf) ==
    [index |-> rdf.cols, columns |-> rdf.cols, val |-> Annualized(ColCov(rdf))]

-----------------------------------------------------------------------------
(* The run *)

Absent == [exists |-> FALSE, content |-> <<>>]

Written(content) == [exists |-> TRUE, content |-> content]

Init ==
    /\ asset_files \in {SelectSeq(l, EndsWithCsv) : l \in Listings}
    /\ idx = 1
    /\ frames = <<>>
    /\ all_returns = EmptyDict
    /\ log = <<>>
    /\ returns_df = NoFrame
    /\ mean_returns = <<>>
    /\ volatility = <<>>
    /\ market_return = NaN
    /\ market_sharpe = NaN
    /\ sharpe_ratios = <<>>
    /\ tau = <<>>
    /\ summary_df = <<>>
    /\ summary_file = Absent
    /\ covariance_file = Absent
    /\ pc = "load"

\* one pass of the for loop over asset_files
LoadFile ==
    /\ pc = "load"
    /\ idx <= Len(asset_files)
    /\ \E df \in Frames :
        LET asset_file == asset_files[idx]
            ticker     == TickerOf(asset_file)
        IN  /\ frames' = Append(frames, df)
            /\ IF df.kind = "raises"
               THEN /\ log' = Append(log, <<"error", asset_file>>)
                    /\ UNCHANGED all_returns
               ELSE IF ~HasClose(df)
               THEN UNCHANGED <<log, all_returns>>
               ELSE IF ~MeetsHistory(df)
               THEN /\ log' = Append(log, <<"skip", ticker, df.len>>)
                    /\ UNCHANGED all_returns
               ELSE /\ all_returns' = DictSet(all_returns, ticker, DailyReturns(df))
                    /\ UNCHANGED log
    /\ idx' = idx + 1
    /\ UNCHANGED <<asset_files, returns_df, mean_returns, volatility, market_return,
                   market_sharpe, sharpe_ratios, tau, summary_df, summary_file,
                   covariance_file, pc>>

\* the loop is over and nothing was loaded: print and return
NoData ==
    /\ pc = "load"
    /\ idx > Len(asset_files)
    /\ IsEmptyDict(all_returns)
    /\ log' = Append(log, <<"nodata">>)
    /\ pc' = "returned"
    /\ UNCHANGED <<asset_files, idx, frames, all_returns, returns_df, mean_returns,
                   volatility, market_return, market_sharpe, sharpe_ratios, tau,
                   summary_df, summary_file, covariance_file>>

\* alignment, moments, anchor, shrinkage and the summary frame
Estimate ==
    /\ pc = "load"
    /\ idx > Len(asset_files)
    /\ ~IsEmptyDict(all_returns)
    /\ returns_df' = Align(all_returns)
    /\ mean_returns' = MeanReturns(returns_df')
    /\ volatility' = Volatility(returns_df')
    /\ market_return' = MarketReturn(returns_df', mean_returns')
    /\ market_sharpe' = MarketSharpe(returns_df', mean_returns')
    /\ sharpe_ratios' = SharpeRatios(mean_returns', volatility')
    /\ tau' = [t \in Columns(returns_df') |-> TauOf(sharpe_ratios'[t], market_sharpe')]
    /\ summary_df' = SummaryRows(returns_df', mean_returns', volatility', tau',
                                 market_return')
    /\ pc' = "write_summary"
    /\ UNCHANGED <<asset_files, idx, frames, all_returns, log, summary_file,
                   covariance_file>>

\* summary_df.to_csv(summary_output_file) succeeds
WriteSummary ==
    /\ pc = "write_summary"
    /\ summary_file' = Written(summary_df)
    /\ log' = Append(log, <<"saved", "summary">>)
    /\ pc' = "write_cov"
    /\ UNCHANGED <<asset_files, idx, frames, all_returns, returns_df, mean_returns,
                   volatility, market_return, market_sharpe, sharpe_ratios, tau,
                   summary_df, covariance_file>>

\* summary_df.to_csv raises (unwritable path): the exception leaves the function
WriteSummaryFails ==
    /\ pc = "write_summary"
    /\ pc' = "raised"
    /\ UNCHANGED <<asset_files, idx, frames, all_returns, log, returns_df,
                   mean_returns, volatility, market_return, market_sharpe,
                   sharpe_ratios, tau, summary_df, summary_file, covariance_file>>

\* the covariance matrix is computed and written
WriteCovariance ==
    /\ pc = "write_cov"
    /\ covariance_file' = Written(CovarianceMatrix(returns_df))
    /\ log' = Append(log, <<"saved", "covariance">>)
    /\ pc' = "done"
    /\ UNCHANGED <<asset_files, idx, frames, all_returns, returns_df, mean_returns,
                   volatility, market_return, market_sharpe, sharpe_ratios, tau,
                   summary_df, summary_file>>

\* covariance_matrix.to_csv raises (unwritable path) after the summary was saved
WriteCovarianceFails ==
    /\ pc = "write_cov"
    /\ pc' = "raised"
    /\ UNCHANGED <<asset_files, idx, frames, all_returns, log, returns_df,
                   mean_returns, volatility, market_return, market_sharpe,
                   sharpe_ratios, tau, summary_df, summary_file, covariance_file>>

Next ==
    \/ LoadFile
    \/ NoData
    \/ Estimate
    \/ WriteSummary
    \/ WriteSummaryFails
    \/ WriteCovariance
    \/ WriteCovarianceFails

Spec == Init /\ [][Next]_vars

-----------------------------------------------------------------------------
(* Vocabulary of the properties *)

Range(seq) == {seq[i] : i \in 1..Len(seq)}

\* the for loop has read every file
LoopDone == idx > Len(asset_files)

\* lines 44-78 have run
Estimated == pc \in {"write_summary", "write_cov", "done", "raised"}

Finished == pc \in {"done", "returned", "raised"}

Malformed(df) == df.kind \in {"raises", "noclose"}

TooShort(df) == df.kind = "ok" /\ df.len < 1260

Qualifies(df) == df.kind = "ok" /\ df.len >= 1260

\* the ticker of each file name, tabulated
Tickers == [f \in FileNames |-> TickerOf(f)]

FileTicker(i) == Tickers[asset_files[i]]

\* the files read so far whose record is well-formed and long enough
QualFiles == {i \in 1..Len(frames) : Qualifies(frames[i])}

QualTickers == {FileTicker(i) : i \in QualFiles}

\* the record a surviving ticker's column comes from: the last one read
LastFrame(t) == frames[SetMax({i \in QualFiles : FileTicker(i) = t})]

\* the return dates common to the surviving tickers
CommonLo == SetMax({LastFrame(t).start + 1 : t \in QualTickers})

CommonHi == SetMin({LastFrame(t).start + LastFrame(t).len - 1 : t \in QualTickers})

CommonDates == IF CommonHi < CommonLo THEN 0 ELSE CommonHi - CommonLo + 1

\* the surviving tickers in the order of their first insertion
RECURSIVE FirstSeen(_)
FirstSeen(n) ==
    IF n = 0 THEN <<>>
    ELSE LET prev == FirstSeen(n - 1)
         IN  IF n \in QualFiles /\ FileTicker(n) \notin Range(prev)
             THEN Append(prev, FileTicker(n))
             ELSE prev

SummaryTickers(rows) == [i \in 1..Len(rows) |-> rows[i].Ticker]

Logged(i) ==
    \E j \in 1..Len(log) :
        /\ log[j][1] \in {"error", "skip"}
        /\ log[j][2] \in {asset_files[i], FileTicker(i)}

IsZero(x) == x.k = "fin" /\ x.n = 0

-----------------------------------------------------------------------------
(* Properties *)

\* C1: a malformed record (its read raises, or it has no 'Close' field) is
\* skipped and logged, and every other record that meets the history
\* threshold is still loaded.
C1_MalformedSkippedAndLogged ==
    \A i \in 1..Len(frames) :
        Malformed(frames[i]) =>
            /\ Logged(i)
            /\ \A k \in QualFiles : FileTicker(k) \in Keys(all_returns)

\* C2: a finished run has written both output tables or neither.
C2_BothTablesOrNeither ==
    Finished => (summary_file.exists <=> covariance_file.exists)

\* C3: a well-formed record with fewer than 1260 rows is noted as skipped and
\* its series is in neither table; every ticker with a well-formed record of
\* at least 1260 rows is kept; the aligned dates are the common dates of the
\* kept records alone.
C3_HistoryFilter ==
    /\ \A i \in 1..Len(frames) :
          TooShort(frames[i]) =>
              /\ <<"skip", FileTicker(i), frames[i].len>> \in Range(log)
              /\ \A t \in Keys(all_returns) :
                    all_returns.val[t] # DailyReturns(frames[i])
    /\ Keys(all_returns) = QualTickers
    /\ Estimated =>
          /\ Columns(returns_df) = QualTickers
          /\ NRows(returns_df) = CommonDates
          /\ \A t \in QualTickers : returns_df.col[t] = DailyReturns(LastFrame(t))
    /\ summary_file.exists =>
          Range(SummaryTickers(summary_file.content)) = QualTickers
    /\ covariance_file.exists =>
          /\ Range(covariance_file.content.index) = QualTickers
          /\ Range(covariance_file.content.columns) = QualTickers

C3_Witness ==
    /\ pc = "done"
    /\ \E i, j \in 1..Len(frames) :
          /\ TooShort(frames[i])
          /\ Qualifies(frames[j])
          /\ FileTicker(i) \notin QualTickers
          /\ frames[i].start + 1 > CommonHi
    /\ NRows(returns_df) > 0

\* C4: when no record qualifies, the run stops at the empty check, reports
\* that there is no data, and writes neither table.
C4_EmptyHalts ==
    (LoopDone /\ QualFiles = {}) =>
        /\ pc \in {"load", "returned"}
        /\ pc = "returned" => log[Len(log)] = <<"nodata">>
        /\ ~summary_file.exists
        /\ ~covariance_file.exists

C4_Witness ==
    /\ pc = "returned"
    /\ Len(frames) >= 2
    /\ \E i, j \in 1..Len(frames) : Malformed(frames[i]) /\ TooShort(frames[j])

\* C5: when the aligned matrix has fewer than 2 rows, no output table is
\* written.
C5_FewRowsWriteNothing ==
    (Estimated /\ NRows(returns_df) < 2) =>
        ~summary_file.exists /\ ~covariance_file.exists

\* C6: when a surviving ticker has annualized volatility 0, no output table
\* is written.
C6_ZeroVolatilityWritesNothing ==
    (Estimated /\ \E t \in Columns(returns_df) : IsZero(volatility[t])) =>
        ~summary_file.exists /\ ~covariance_file.exists

\* C7: tau is 0.20 exactly when the ticker's Sharpe ratio exceeds 1.5 times
\* the market Sharpe ratio and 0.40 otherwise, 0.40 on equality, and the
\* emitted Mean is (1 - tau) * marketReturn + tau * annualizedMean.
C7_TauAndBlend ==
    pc = "done" =>
        \A i \in 1..Len(summary_file.content) :
            LET t == summary_file.content[i].Ticker
            IN  /\ tau[t] \in {Fin(1, 5), Fin(2, 5)}
                /\ tau[t] = Fin(1, 5) <=>
                      Gt(sharpe_ratios[t], SurdScale(Fin(3, 2), market_sharpe))
                /\ sharpe_ratios[t] = SurdScale(Fin(3, 2), market_sharpe)
                      => tau[t] = Fin(2, 5)
                /\ summary_file.content[i].Mean =
                      Add(Mul(Sub(Whole(1), tau[t]), market_return),
                          Mul(tau[t], mean_returns[t]))

C7_Witness ==
    /\ pc = "done"
    /\ \E t \in Columns(returns_df) :
          /\ IsFin(sharpe_ratios[t])
          /\ ~IsZero(sharpe_ratios[t])
          /\ sharpe_ratios[t] = SurdScale(Fin(3, 2), market_sharpe)
          /\ tau[t] = Fin(2, 5)

\* C8: with SPY among the surviving tickers the anchor is SPY's annualized
\* mean and its mean over its volatility; without it (never listed, or
\* skipped by the loader) the anchor is the mean of the surviving tickers'
\* annualized means and the market Sharpe ratio is 0.7.
C8_MarketAnchor ==
    Estimated =>
        /\ SPY \in Columns(returns_df) <=> SPY \in QualTickers
        /\ SPY \in QualTickers =>
              /\ market_return = mean_returns[SPY]
              /\ market_sharpe = DivSurd(mean_returns[SPY], volatility[SPY])
        /\ SPY \notin QualTickers =>
              /\ market_return = SeriesMean(mean_returns)
              /\ market_sharpe = Fin(49, 100)

C8_Witness ==
    /\ pc = "done"
    /\ \E i \in 1..Len(frames) : FileTicker(i) = SPY /\ ~Qualifies(frames[i])
    /\ SPY \notin QualTickers
    /\ Cardinality(QualTickers) = 2
    /\ IsFin(market_return)
    /\ \A t \in QualTickers : mean_returns[t] # market_return

\* C9: a completed run's summary has one row per surviving ticker, in the
\* order of first insertion, and the covariance table is keyed by the same
\* tickers on both axes, also when two file names give the same ticker.
C9_RowsInFirstSeenOrder ==
    pc = "done" =>
        /\ SummaryTickers(summary_file.content) = FirstSeen(Len(frames))
        /\ covariance_file.content.index = FirstSeen(Len(frames))
        /\ covariance_file.content.columns = FirstSeen(Len(frames))
        /\ DOMAIN covariance_file.content.val = QualTickers \X QualTickers

C9_Witness ==
    /\ pc = "done"
    /\ \E i, j, k \in QualFiles :
          /\ i < j /\ j < k
          /\ FileTicker(i) = FileTicker(k)
          /\ FileTicker(i) # FileTicker(j)
          /\ frames[i] # frames[k]

\* C10 as stated: with SPY among the surviving tickers and at least one
\* aligned row, the proxy's emitted Mean is its raw annualized mean, and
\* shrinkage changes the Mean of every other ticker.
C10_OnlyProxyUnchanged ==
    (pc = "done" /\ SPY \in Columns(returns_df) /\ NRows(returns_df) > 0) =>
        \A i \in 1..Len(summary_file.content) :
            summary_file.content[i].Mean = mean_returns[summary_file.content[i].Ticker]
                <=> summary_file.content[i].Ticker = SPY

\* C10 amended: with SPY among the surviving tickers and at least one
\* aligned row, the proxy's emitted Mean is its raw annualized mean for
\* either value of tau (in exact arithmetic), and shrinkage changes the Mean
\* of exactly the tickers whose annualized mean differs from the proxy's.
C10_ProxyUnchanged ==
    (pc = "done" /\ SPY \in Columns(returns_df) /\ NRows(returns_df) > 0) =>
        \A i \in 1..Len(summary_file.content) :
            LET row == summary_file.content[i]
            IN  /\ row.Ticker = SPY =>
                      /\ row.Mean = mean_returns[SPY]
                      /\ \A w \in {Fin(1, 5), Fin(2, 5)} :
                            Add(Mul(Sub(Whole(1), w), market_return),
                                Mul(w, mean_returns[SPY])) = row.Mean
                /\ row.Mean = mean_returns[row.Ticker]
                      <=> mean_returns[row.Ticker] = mean_returns[SPY]

C10_Witness ==
    /\ pc = "done"
    /\ SPY \in Columns(returns_df)
    /\ tau[SPY] = Fin(1, 5)
    /\ IsFin(mean_returns[SPY])
    /\ \E t \in Columns(returns_df) : mean_returns[t] # mean_returns[SPY]
    /\ \E t \in Columns(returns_df) \ {SPY} : mean_returns[t] = mean_returns[SPY]

====
